---- MODULE Spec2Model ----
(***************************************************************************)
(* English TTS Coach (src/app/streamlit_app.py).                           *)
(*                                                                         *)
(* Four components are modelled; the specifications are:                   *)
(*   SpecChunk     - chunk_text, the sentence packer (a pure function)     *)
(*   SpecTranslate - free_translate_to_english behind st.cache_data        *)
(*   Spec          - the Generate handler driving synth_all/edge_tts_once  *)
(*   SpecLoop      - the A/B loop widget of the embedded player            *)
(*   SpecLoopRun   - the widget left alone while a loop runs (fair)        *)
(* A text is a sequence of characters; a byte is 0..255.  A character is   *)
(* the one-character string that holds it, and a character no TLA+ string  *)
(* can spell is the string of its code point: "U+00A0" is NO-BREAK SPACE.  *)
(***************************************************************************)
EXTENDS Integers, Sequences, FiniteSets

VARIABLES
    \* chunk_text applied to one input
    c_text, c_max, c_out, c_pc,
    \* free_translate_to_english and its cache
    GoogleTranslator, tr_cache, tr_text, tr_ret, tr_invoked, tr_raised, tr_threw,
    \* the Generate handler, synth_all and the stream in flight
    audio_b64, pc, final_text, segs, idx, parts, mp3_bytes,
    ret, calls, streams, inflight, status, artifactBefore,
    \* the loop widget and the audio element
    A, B, looping, left, currentTime, playing, repeatN, lastEvent, hits, startN

chunkVars == <<c_text, c_max, c_out, c_pc>>
trVars    == <<GoogleTranslator, tr_cache, tr_text, tr_ret, tr_invoked, tr_raised, tr_threw>>
genVars   == <<audio_b64, pc, final_text, segs, idx, parts, mp3_bytes, ret, calls,
               streams, inflight, status, artifactBefore>>
loopVars  == <<A, B, looping, left, currentTime, playing, repeatN, lastEvent, hits, startN>>
vars      == <<chunkVars, trVars, genVars, loopVars>>

(***************************************************************************)
(* Bounds of the model.                                                    *)
(***************************************************************************)
\* longest enumerated input text of chunk_text
MaxLen == 5
\* largest enumerated max_chars
MaxBudget == 4

(***************************************************************************)
(* Text helpers: Python's str.strip, str.isspace, re.split.                *)
(***************************************************************************)
\* the absent value (Python None) of a text, and of a byte string
None == <<"None">>

NoBytes == <<-1>>

\* the characters str.strip() removes and \s matches in a str pattern: those
\* str.isspace() holds of
Space == {"\t", "\n", "U+000B", "\f", "\r", "U+001C", "U+001D", "U+001E", "U+001F",
          " ", "U+0085", "U+00A0", "U+1680", "U+2000", "U+2001", "U+2002",
          "U+2003", "U+2004", "U+2005", "U+2006", "U+2007", "U+2008", "U+2009",
          "U+200A", "U+2028", "U+2029", "U+202F", "U+205F", "U+3000"}

Terminator == {".", "!", "?"}

IsSpace(c) == c \in Space

\* first and last index of a character that is not whitespace (0 when none)
FirstInk(t) ==
    IF \A i \in 1..Len(t) : IsSpace(t[i]) THEN 0
    ELSE CHOOSE i \in 1..Len(t) : ~IsSpace(t[i]) /\ \A j \in 1..(i-1) : IsSpace(t[j])

LastInk(t) ==
    IF \A i \in 1..Len(t) : IsSpace(t[i]) THEN 0
    ELSE CHOOSE i \in 1..Len(t) : ~IsSpace(t[i]) /\ \A j \in (i+1)..Len(t) : IsSpace(t[j])

\* str.strip()
strip(t) == IF FirstInk(t) = 0 THEN <<>> ELSE SubSeq(t, FirstInk(t), LastInk(t))

\* where the pattern (?<=[.!?])\s+ matches: a whitespace character right after
\* a terminator starts a match, and the match takes the whole whitespace run
SepStarts(t) == {i \in 2..Len(t) : IsSpace(t[i]) /\ t[i-1] \in Terminator}

SepEnd(t, i) ==
    CHOOSE j \in i..Len(t) :
        /\ \A m \in i..j : IsSpace(t[m])
        /\ (j = Len(t) \/ ~IsSpace(t[j+1]))

\* re.split(r"(?<=[.!?])\s+", t): the pieces between the matches
re_split(t) ==
    LET S == SepStarts(t)
        n == Cardinality(S)
        nth(m) == CHOOSE i \in S : Cardinality({j \in S : j < i}) = m - 1
        from(m) == IF m = 1 THEN 1 ELSE SepEnd(t, nth(m-1)) + 1
        to(m) == IF m = n + 1 THEN Len(t) ELSE nth(m) - 1
    IN  [m \in 1..(n+1) |-> SubSeq(t, from(m), to(m))]

(***************************************************************************)
(* chunk_text (lines 37-50).                                               *)
(***************************************************************************)
\* the default of the max_chars parameter
DEFAULT_MAX_CHARS == 2000

\* line 44: does sentence s still fit the buffer, one separating space counted
FitsMissingSpace(buf, s, max_chars) == Len(buf) + Len(s) <= max_chars

Fits(buf, s, max_chars) == Len(buf) + Len(s) + 1 <= max_chars

\* line 49: the trailing buffer is flushed when it is not empty
FinalFlushDropped(chunks, buf) == chunks

FinalFlush(chunks, buf) == IF buf # <<>> THEN Append(chunks, buf) ELSE chunks

\* lines 43-49: the loop over the sentences from index i on
RECURSIVE Pack(_, _, _, _, _)
Pack(sentences, i, chunks, buf, max_chars) ==
    IF i > Len(sentences) THEN FinalFlush(chunks, buf)
    ELSE LET s == sentences[i]
         IN  IF Fits(buf, s, max_chars)
             THEN Pack(sentences, i + 1, chunks, strip(buf \o <<" ">> \o s), max_chars)
             ELSE Pack(sentences, i + 1,
                       IF buf # <<>> THEN Append(chunks, buf) ELSE chunks,
                       s, max_chars)

chunk_text(text, max_chars) ==
    LET t == strip(text)
    IN  IF Len(t) <= max_chars THEN <<t>>
        ELSE Pack(re_split(t), 1, <<>>, <<>>, max_chars)

(***************************************************************************)
(* free_translate_to_english (lines 26-35) behind st.cache_data.           *)
(* GoogleTranslator is TRUE when the import of lines 9-12 succeeded.       *)
(* An outcome is what the collaborator would do if it were invoked.        *)
(***************************************************************************)
EnShort == <<"H", "i", ".">>

KoShort == <<"x", "y", ".">>

Blank == <<" ", "\n">>

TrOutputs == {EnShort}

TrOutcomes == {[throws |-> TRUE, text |-> <<>>]} \cup
              {[throws |-> FALSE, text |-> t] : t \in TrOutputs}

\* the function body without its try/except: the collaborator's failure escapes
TranslateBodyNoCatch(text, available, outcome) ==
    IF strip(text) = <<>> THEN [ret |-> <<>>, invoked |-> FALSE, raised |-> FALSE]
    ELSE IF ~available THEN [ret |-> text, invoked |-> FALSE, raised |-> FALSE]
    ELSE IF outcome.throws THEN [ret |-> None, invoked |-> TRUE, raised |-> TRUE]
    ELSE [ret |-> outcome.text, invoked |-> TRUE, raised |-> FALSE]

\* lines 28-35: the function body
TranslateBody(text, available, outcome) ==
    IF strip(text) = <<>> THEN [ret |-> <<>>, invoked |-> FALSE, raised |-> FALSE]
    ELSE IF ~available THEN [ret |-> text, invoked |-> FALSE, raised |-> FALSE]
    ELSE IF outcome.throws THEN [ret |-> text, invoked |-> TRUE, raised |-> FALSE]
    ELSE [ret |-> outcome.text, invoked |-> TRUE, raised |-> FALSE]

\* line 26: a hit returns the stored value and runs nothing; a miss runs the
\* body and stores what it returned (a raised exception stores nothing)
free_translate_to_english(text, available, cache, outcome) ==
    IF text \in DOMAIN cache
    THEN [ret |-> cache[text], invoked |-> FALSE, raised |-> FALSE, cache |-> cache]
    ELSE LET r == TranslateBody(text, available, outcome)
         IN  [ret |-> r.ret, invoked |-> r.invoked, raised |-> r.raised,
              cache |-> IF r.raised THEN cache
                        ELSE [t \in DOMAIN cache \cup {text} |->
                                 IF t = text THEN r.ret ELSE cache[t]]]

(***************************************************************************)
(* base64.b64encode(...).decode("utf-8") (line 103).                       *)
(***************************************************************************)
B64Alphabet ==
    <<"A","B","C","D","E","F","G","H","I","J","K","L","M","N","O","P",
      "Q","R","S","T","U","V","W","X","Y","Z","a","b","c","d","e","f",
      "g","h","i","j","k","l","m","n","o","p","q","r","s","t","u","v",
      "w","x","y","z","0","1","2","3","4","5","6","7","8","9","+","/">>

b64encode(bs) ==
    LET n == Len(bs)
        byte(i) == IF i <= n THEN bs[i] ELSE 0
        triple(g) == byte(3*g - 2) * 65536 + byte(3*g - 1) * 256 + byte(3*g)
        \* the j-th character (0..3) of group g: padding past the group's bytes
        char(g, j) ==
            IF 3 * (g - 1) + j > n THEN "="
            ELSE B64Alphabet[((triple(g) \div (64 ^ (3 - j))) % 64) + 1]
    IN  [p \in 1..(4 * ((n + 2) \div 3)) |-> char(((p - 1) \div 4) + 1, (p - 1) % 4)]

(***************************************************************************)
(* The synthesis collaborator: edge_tts.Communicate(...).stream() yields    *)
(* frames {type, data}; it may fail at any point of a stream.              *)
(***************************************************************************)
\* frames one Generate run may receive in all
MaxFrames == 2

\* the audio frame the collaborator sends for a text carries one byte taken
\* from the text, so that the audio of different segments differs
Audio(text) == [type |-> "audio", data |-> <<Len(text) % 256>>]

Boundary == [type |-> "WordBoundary", data |-> <<7>>]

Frames(text) == {Audio(text), Boundary}

\* line 56: which frames edge_tts_once keeps
KeepsEveryFrame(f) == TRUE

KeepsFrame(f) == f.type = "audio"

\* b"".join(parts) (line 65)
RECURSIVE join_bytes(_)
join_bytes(ps) == IF ps = <<>> THEN <<>> ELSE Head(ps) \o join_bytes(Tail(ps))

RECURSIVE CountFrames(_)
CountFrames(ss) == IF ss = <<>> THEN 0 ELSE Len(Head(ss)) + CountFrames(Tail(ss))

(***************************************************************************)
(* The sidebar inputs a Generate click may find.                           *)
(***************************************************************************)
Rep(c, n) == [i \in 1..n |-> c]

\* a sentence of n characters
Sentence(n) == Rep("a", n - 1) \o <<".">>

\* three sentences no two of which fit one segment of 2000 characters, untrimmed
Long3 == <<" ">> \o Sentence(1000) \o <<" ">> \o Sentence(1001) \o <<"\t", "\n">>
             \o Sentence(1002) \o <<"\n">>

\* what a Generate click may find in the text area and the checkbox
Inputs == {[raw |-> <<>>, use_translation |-> FALSE],
           [raw |-> Blank, use_translation |-> TRUE],
           [raw |-> KoShort, use_translation |-> FALSE],
           [raw |-> KoShort, use_translation |-> TRUE],
           [raw |-> Long3, use_translation |-> FALSE]}

RawTexts == {in.raw : in \in Inputs}

\* synth_all's chunk_text(text) (line 62) and the handler's raw.strip()
\* (line 92), tabulated once for every text a run can meet
SynthTexts == RawTexts \cup TrOutputs

ChunksOf == [t \in SynthTexts |-> chunk_text(t, DEFAULT_MAX_CHARS)]

StrippedOf == [t \in SynthTexts |-> strip(t)]

\* every segment a run can synthesize, and every frame a stream can carry
AllSegments == UNION {{ChunksOf[t][i] : i \in 1..Len(ChunksOf[t])} : t \in SynthTexts}

AllFrames == UNION {Frames(c) : c \in AllSegments}

(***************************************************************************)
(* The Generate handler (lines 91-103), synth_all (60-65) and              *)
(* edge_tts_once (52-58). pc: "idle" between script runs, "loop" at the    *)
(* head of synth_all's for loop, "stream" while asyncio.run is inside a    *)
(* collaborator stream.                                                    *)
(***************************************************************************)
\* lines 91-101 up to the first collaborator call of synth_all; raw and
\* use_translation are the widgets' values, outcome what the translation
\* collaborator does if it is invoked
ClickGenerate(raw_, use_translation_, outcome) ==
    /\ pc = "idle"
    /\ IF StrippedOf[raw_] = <<>>
       THEN /\ status' = "warning"
            /\ UNCHANGED <<audio_b64, pc, final_text, segs, idx, parts, mp3_bytes, ret,
                           calls, streams, inflight, artifactBefore>>
            /\ UNCHANGED trVars
       ELSE LET tr == free_translate_to_english(raw_, GoogleTranslator, tr_cache, outcome)
                used == use_translation_ /\ StrippedOf[raw_] # <<>>
                final == IF used THEN tr.ret ELSE raw_
            IN  /\ tr_cache' = IF used THEN tr.cache ELSE tr_cache
                /\ UNCHANGED <<GoogleTranslator, tr_text, tr_ret, tr_invoked,
                               tr_raised, tr_threw>>
                /\ artifactBefore' = audio_b64
                /\ ret' = NoBytes
                /\ calls' = <<>>
                /\ streams' = <<>>
                /\ parts' = <<>>
                /\ mp3_bytes' = NoBytes
                /\ UNCHANGED <<audio_b64, inflight>>
                /\ IF used /\ tr.raised
                   THEN /\ status' = "error"
                        /\ pc' = "idle"
                        /\ final_text' = None
                        /\ segs' = <<>>
                        /\ idx' = 1
                   ELSE /\ status' = "spinner"
                        /\ pc' = "loop"
                        /\ final_text' = final
                        /\ segs' = ChunksOf[final]
                        /\ idx' = 1

\* line 63 entering edge_tts_once (lines 53-54): the call for segment idx
StartCall ==
    /\ pc = "loop"
    /\ idx <= Len(segs)
    /\ calls' = Append(calls, segs[idx])
    /\ streams' = Append(streams, <<>>)
    /\ mp3_bytes' = <<>>
    /\ inflight' = inflight + 1
    /\ pc' = "stream"
    /\ UNCHANGED <<audio_b64, final_text, segs, idx, parts, ret, status,
                   artifactBefore>>
    /\ UNCHANGED trVars

\* lines 55-57: one frame of the stream
ReceiveFrame(f) ==
    /\ pc = "stream"
    /\ CountFrames(streams) < MaxFrames
    /\ f \in Frames(calls[Len(calls)])
    /\ streams' = [streams EXCEPT ![Len(streams)] = Append(@, f)]
    /\ mp3_bytes' = IF KeepsFrame(f) THEN mp3_bytes \o f.data ELSE mp3_bytes
    /\ UNCHANGED <<audio_b64, pc, final_text, segs, idx, parts, ret, calls, inflight,
                   status, artifactBefore>>
    /\ UNCHANGED trVars

\* line 58 and the append of line 63: the stream is exhausted
StreamEnd ==
    /\ pc = "stream"
    /\ parts' = Append(parts, mp3_bytes)
    /\ inflight' = inflight - 1
    /\ idx' = idx + 1
    /\ pc' = "loop"
    /\ UNCHANGED <<audio_b64, final_text, segs, mp3_bytes, ret, calls, streams,
                   status, artifactBefore>>
    /\ UNCHANGED trVars

\* the failure is swallowed: the partial buffer is kept and the loop goes on
StreamFailSwallowed ==
    /\ pc = "stream"
    /\ parts' = Append(parts, mp3_bytes)
    /\ inflight' = inflight - 1
    /\ idx' = idx + 1
    /\ pc' = "loop"
    /\ status' = "error"
    /\ UNCHANGED <<audio_b64, final_text, segs, mp3_bytes, ret, calls, streams,
                   artifactBefore>>
    /\ UNCHANGED trVars

\* the collaborator raises inside lines 53-57: nothing catches it in
\* edge_tts_once, synth_all or the handler, so the script run ends there
StreamFail ==
    /\ pc = "stream"
    /\ inflight' = inflight - 1
    /\ pc' = "idle"
    /\ status' = "error"
    /\ UNCHANGED <<audio_b64, final_text, segs, idx, parts, mp3_bytes, ret, calls,
                   streams, artifactBefore>>
    /\ UNCHANGED trVars

\* line 65 and lines 101-103: synth_all returns, the artifact is replaced
SynthReturn ==
    /\ pc = "loop"
    /\ idx > Len(segs)
    /\ ret' = join_bytes(parts)
    /\ audio_b64' = b64encode(ret')
    /\ status' = "success"
    /\ pc' = "idle"
    /\ UNCHANGED <<final_text, segs, idx, parts, mp3_bytes, calls, streams, inflight,
                   artifactBefore>>
    /\ UNCHANGED trVars

(***************************************************************************)
(* The loop widget (lines 109-178): JavaScript numbers and parseInt.       *)
(* A number is [nan, v]: NaN, or the integer v. Time is counted in ticks   *)
(* of the audio element, 0..Dur.                                           *)
(***************************************************************************)
\* length of the audio in ticks
Dur == 3
\* the traversal counter of the model stops counting here
MaxHits == 6
\* the min and max attributes of the repeat-count input (line 116)
REPEAT_MIN == 1

REPEAT_MAX == 50

Num(v) == [nan |-> FALSE, v |-> v]

NaN == [nan |-> TRUE, v |-> 0]

DigitChars == <<"0", "1", "2", "3", "4", "5", "6", "7", "8", "9">>

IsDigit(c) == \E d \in 1..10 : DigitChars[d] = c

DigitVal(c) == (CHOOSE d \in 1..10 : DigitChars[d] = c) - 1

RECURSIVE DigitsValue(_, _, _)
DigitsValue(str, from, to) ==
    IF to < from THEN 0 ELSE DigitsValue(str, from, to - 1) * 10 + DigitVal(str[to])

\* the characters parseInt skips at the start: ECMAScript's WhiteSpace and
\* LineTerminator
StrWhiteSpaceChar ==
    {"\t", "\n", "U+000B", "\f", "\r", " ", "U+00A0", "U+1680", "U+2000", "U+2001",
     "U+2002", "U+2003", "U+2004", "U+2005", "U+2006", "U+2007", "U+2008",
     "U+2009", "U+200A", "U+2028", "U+2029", "U+202F", "U+205F", "U+3000",
     "U+FEFF"}

\* parseInt(str, 10): leading whitespace, an optional sign, then the longest
\* run of digits; NaN when there is no digit
parseInt(str) ==
    LET inks == {i \in 1..Len(str) : str[i] \notin StrWhiteSpaceChar}
        first == IF inks = {} THEN 0 ELSE CHOOSE i \in inks : \A j \in inks : i <= j
        signed == first > 0 /\ str[first] \in {"-", "+"}
        from == IF signed THEN first + 1 ELSE first
        digits == {i \in from..Len(str) : \A j \in from..i : IsDigit(str[j])}
    IN  IF first = 0 \/ digits = {} THEN NaN
        ELSE LET v == DigitsValue(str, from, from + Cardinality(digits) - 1)
             IN  Num(IF signed /\ str[first] = "-" THEN 0 - v ELSE v)

\* repeatN.value || '1' (line 152)
OrOne(value) == IF value = <<>> THEN <<"1">> ELSE value

\* left -= 1 (line 165)
Decrement(x) == IF x.nan THEN NaN ELSE Num(x.v - 1)

\* left <= 0 (line 166); a comparison with NaN is false
ExhaustedBelowZero(x) == ~x.nan /\ x.v < 0

Exhausted(x) == ~x.nan /\ x.v <= 0

\* B <= A (line 151)
RejectsOnlyBehind(a, b) == b < a

Rejects(a, b) == b <= a

\* the value attribute of line 116 and what a user can leave in the field: a
\* number input holds "" or a valid floating-point number, whatever min and max
REPEAT_DEFAULT == <<"5">>

RepeatValues == {<<>>, REPEAT_DEFAULT, <<"1">>, <<"2">>, <<"0">>, <<"-", "1">>,
                 <<".", "5">>}

\* audio.play(): playback that has ended restarts from the beginning
PlayFrom(t) == IF t = Dur THEN 0 ELSE t

Count(h) == IF h < MaxHits THEN h + 1 ELSE h

\* btnA.onclick (line 138)
SetA ==
    /\ A' = currentTime
    /\ lastEvent' = "setA"
    /\ UNCHANGED <<B, looping, left, currentTime, playing, repeatN, hits, startN>>

\* btnB.onclick (line 139)
SetB ==
    /\ B' = currentTime
    /\ lastEvent' = "setB"
    /\ UNCHANGED <<A, looping, left, currentTime, playing, repeatN, hits, startN>>

\* the user edits the repeat-count field
TypeRepeat(value) ==
    /\ repeatN' = value
    /\ lastEvent' = "env"
    /\ UNCHANGED <<A, B, looping, left, currentTime, playing, hits, startN>>

\* the counter is read before the range is checked
StartRejectedAfterParse ==
    /\ left' = parseInt(OrOne(repeatN))
    /\ lastEvent' = "alert"
    /\ UNCHANGED <<A, B, looping, currentTime, playing, repeatN, hits, startN>>

\* line 151: the alert, and nothing else
StartRejected ==
    /\ lastEvent' = "alert"
    /\ UNCHANGED <<A, B, looping, left, currentTime, playing, repeatN, hits, startN>>

\* lines 152-155
StartLoop ==
    /\ left' = parseInt(OrOne(repeatN))
    /\ looping' = TRUE
    /\ currentTime' = PlayFrom(A)
    /\ playing' = TRUE
    /\ lastEvent' = "start"
    /\ hits' = 0
    /\ startN' = left'
    /\ UNCHANGED <<A, B, repeatN>>

\* stop that also pauses the audio
StopLoopPausing ==
    /\ looping' = FALSE
    /\ playing' = FALSE
    /\ lastEvent' = "stop"
    /\ UNCHANGED <<A, B, left, currentTime, repeatN, hits, startN>>

\* lines 157-158
StopLoop ==
    /\ looping' = FALSE
    /\ lastEvent' = "stop"
    /\ UNCHANGED <<A, B, left, currentTime, playing, repeatN, hits, startN>>

\* btnStart.onclick (lines 149-160), also reached by the R hotkey (line 146)
ClickStart ==
    IF ~looping
    THEN IF Rejects(A, B) THEN StartRejected ELSE StartLoop
    ELSE StopLoop

\* the timeupdate listener (lines 162-175)
TimeUpdate ==
    IF ~looping \/ ~(currentTime >= B)
    THEN UNCHANGED loopVars
    ELSE /\ left' = Decrement(left)
         /\ hits' = Count(hits)
         /\ IF Exhausted(left')
            THEN /\ looping' = FALSE
                 /\ playing' = FALSE
                 /\ lastEvent' = "done"
                 /\ UNCHANGED currentTime
            ELSE /\ currentTime' = PlayFrom(A)
                 /\ playing' = TRUE
                 /\ lastEvent' = "again"
                 /\ UNCHANGED looping
         /\ UNCHANGED <<A, B, repeatN, startN>>

\* the audio element (line 111): playback moves on one tick and pauses itself
\* at the end of the audio
Advance ==
    /\ playing
    /\ currentTime < Dur
    /\ currentTime' = currentTime + 1
    /\ playing' = (currentTime' < Dur)
    /\ lastEvent' = "env"
    /\ UNCHANGED <<A, B, looping, left, repeatN, hits, startN>>

\* the native controls of the audio element (line 111)
UserPlay ==
    /\ ~playing
    /\ playing' = TRUE
    /\ currentTime' = PlayFrom(currentTime)
    /\ lastEvent' = "env"
    /\ UNCHANGED <<A, B, looping, left, repeatN, hits, startN>>

UserPause ==
    /\ playing
    /\ playing' = FALSE
    /\ lastEvent' = "env"
    /\ UNCHANGED <<A, B, looping, left, currentTime, repeatN, hits, startN>>

UserSeek(t) ==
    /\ currentTime' = t
    /\ playing' = (playing /\ t < Dur)
    /\ lastEvent' = "env"
    /\ UNCHANGED <<A, B, looping, left, repeatN, hits, startN>>

(***************************************************************************)
(* Initial states: the module after import, the session after line 89,     *)
(* the widget after line 131.                                              *)
(***************************************************************************)
NoCache == [t \in {} |-> <<>>]

InitChunk == c_text = <<>> /\ c_max = 0 /\ c_out = <<>> /\ c_pc = "off"

InitTr(available) ==
    /\ GoogleTranslator = available
    /\ tr_cache = NoCache
    /\ tr_text = None
    /\ tr_ret = None
    /\ tr_invoked = FALSE
    /\ tr_raised = FALSE
    /\ tr_threw = FALSE

InitGen ==
    /\ audio_b64 = None
    /\ pc = "idle"
    /\ final_text = None
    /\ segs = <<>>
    /\ idx = 1
    /\ parts = <<>>
    /\ mp3_bytes = NoBytes
    /\ ret = NoBytes
    /\ calls = <<>>
    /\ streams = <<>>
    /\ inflight = 0
    /\ status = "info"
    /\ artifactBefore = None

InitLoop ==
    /\ A = 0
    /\ B = 0
    /\ looping = FALSE
    /\ left = Num(0)
    /\ currentTime = 0
    /\ playing = FALSE
    /\ repeatN = REPEAT_DEFAULT
    /\ lastEvent = "init"
    /\ hits = 0
    /\ startN = Num(0)

(***************************************************************************)
(* Spec: the Generate handler with its two collaborators.                  *)
(***************************************************************************)
Init == InitChunk /\ (\E available \in BOOLEAN : InitTr(available)) /\ InitGen /\ InitLoop

Aside == UNCHANGED <<chunkVars, loopVars>>

Next ==
    \/ \E in \in Inputs, outcome \in TrOutcomes :
          ClickGenerate(in.raw, in.use_translation, outcome) /\ Aside
    \/ StartCall /\ Aside
    \/ \E f \in AllFrames : ReceiveFrame(f) /\ Aside
    \/ StreamEnd /\ Aside
    \/ StreamFail /\ Aside
    \/ SynthReturn /\ Aside

Spec == Init /\ [][Next]_vars

(***************************************************************************)
(* SpecChunk: chunk_text applied to every text of at most MaxLen           *)
(* characters over ChunkChars and every max_chars of -1..MaxBudget, and to *)
(* the example of the specification.                                       *)
(***************************************************************************)
ChunkChars == {"a", ".", "?", " ", "\n", "\r"}

ChunkTexts == UNION {[1..m -> ChunkChars] : m \in 0..MaxLen}

HelloText == <<"H", "e", "l", "l", "o", ".", " ", "T", "h", "i", "s", " ", "i", "s",
               " ", "a", " ", "t", "e", "s", "t", ".">>

InitChunkCall ==
    /\ \/ c_text \in ChunkTexts /\ c_max \in (-1)..MaxBudget
       \/ c_text = HelloText /\ c_max \in {10, 15, DEFAULT_MAX_CHARS}
    /\ c_out = <<>>
    /\ c_pc = "call"
    /\ InitTr(TRUE) /\ InitGen /\ InitLoop

ChunkCall ==
    /\ c_pc = "call"
    /\ c_out' = chunk_text(c_text, c_max)
    /\ c_pc' = "done"
    /\ UNCHANGED <<c_text, c_max, trVars, genVars, loopVars>>

SpecChunk == InitChunkCall /\ [][ChunkCall]_vars

(***************************************************************************)
(* SpecTranslate: free_translate_to_english called on its own.             *)
(***************************************************************************)
TrTexts == {<<>>, Blank, <<"\r">>, <<"U+00A0", "\f">>, KoShort, EnShort, <<" ", "x", " ">>}

CallTranslate(text, outcome) ==
    LET tr == free_translate_to_english(text, GoogleTranslator, tr_cache, outcome)
    IN  /\ tr_cache' = tr.cache
        /\ tr_text' = text
        /\ tr_ret' = tr.ret
        /\ tr_invoked' = tr.invoked
        /\ tr_raised' = tr.raised
        /\ tr_threw' = (tr.invoked /\ outcome.throws)
        /\ UNCHANGED <<GoogleTranslator, chunkVars, genVars, loopVars>>

InitTranslate ==
    InitChunk /\ (\E available \in BOOLEAN : InitTr(available)) /\ InitGen /\ InitLoop

NextTranslate == \E text \in TrTexts, outcome \in TrOutcomes : CallTranslate(text, outcome)

SpecTranslate == InitTranslate /\ [][NextTranslate]_vars

(***************************************************************************)
(* SpecLoop: the widget under every interleaving of its controls, the      *)
(* native controls of the audio element and playback.                      *)
(***************************************************************************)
InitWidget == InitChunk /\ InitTr(TRUE) /\ InitGen /\ InitLoop

Others == UNCHANGED <<chunkVars, trVars, genVars>>

NextLoop ==
    \/ SetA /\ Others
    \/ SetB /\ Others
    \/ \E value \in RepeatValues : TypeRepeat(value) /\ Others
    \/ ClickStart /\ Others
    \/ UserPlay /\ Others
    \/ UserPause /\ Others
    \/ \E t \in 0..Dur : UserSeek(t) /\ Others
    \/ TimeUpdate /\ Others
    \/ Advance /\ Others

SpecLoop == InitWidget /\ [][NextLoop]_vars

(***************************************************************************)
(* SpecLoopRun: no control is touched while a loop runs. Playback of a     *)
(* playing element goes on and its timeupdate events keep coming.          *)
(***************************************************************************)
NextLoopRun ==
    \/ ~looping /\ SetA /\ Others
    \/ ~looping /\ SetB /\ Others
    \/ ~looping /\ \E value \in RepeatValues : TypeRepeat(value) /\ Others
    \/ ~looping /\ ClickStart /\ Others
    \/ ~looping /\ UserPlay /\ Others
    \/ ~looping /\ UserPause /\ Others
    \/ ~looping /\ \E t \in 0..Dur : UserSeek(t) /\ Others
    \/ TimeUpdate /\ Others
    \/ Advance /\ Others

SpecLoopRun ==
    /\ InitWidget
    /\ [][NextLoopRun]_vars
    /\ WF_vars(Advance /\ Others)
    /\ WF_vars(TimeUpdate /\ Others)

(***************************************************************************)
(* Helpers of the properties: sentences and whitespace read off a text by  *)
(* a left-to-right scan, joins, and the audio a run was sent.              *)
(***************************************************************************)
\* index of the first character at or after i that is not whitespace
RECURSIVE SkipSpace(_, _)
SkipSpace(t, i) == IF i <= Len(t) /\ IsSpace(t[i]) THEN SkipSpace(t, i + 1) ELSE i

\* the sentences from index i on; cur is the sentence being read
RECURSIVE ScanSentences(_, _, _, _)
ScanSentences(t, i, cur, acc) ==
    IF i > Len(t) THEN Append(acc, cur)
    ELSE IF IsSpace(t[i]) /\ i > 1 /\ t[i-1] \in Terminator
         THEN ScanSentences(t, SkipSpace(t, i), <<>>, Append(acc, cur))
         ELSE ScanSentences(t, i + 1, Append(cur, t[i]), acc)

\* the maximal pieces between a terminator followed by whitespace
SentencesOf(t) == IF t = <<>> THEN <<>> ELSE ScanSentences(t, 1, <<>>, <<>>)

\* t with every whitespace run that follows a terminator replaced by one space
RECURSIVE OneSpaceAfterTerminator(_, _)
OneSpaceAfterTerminator(t, i) ==
    IF i > Len(t) THEN <<>>
    ELSE IF IsSpace(t[i]) /\ i > 1 /\ t[i-1] \in Terminator
         THEN <<" ">> \o OneSpaceAfterTerminator(t, SkipSpace(t, i))
         ELSE <<t[i]>> \o OneSpaceAfterTerminator(t, i + 1)

RECURSIVE JoinSpace(_)
JoinSpace(ss) ==
    IF ss = <<>> THEN <<>>
    ELSE IF Len(ss) = 1 THEN ss[1]
    ELSE ss[1] \o <<" ">> \o JoinSpace(Tail(ss))

RECURSIVE SentencesOfAll(_)
SentencesOfAll(ss) ==
    IF ss = <<>> THEN <<>> ELSE SentencesOf(Head(ss)) \o SentencesOfAll(Tail(ss))

RECURSIVE AudioOfStream(_)
AudioOfStream(fs) ==
    IF fs = <<>> THEN <<>>
    ELSE (IF Head(fs).type = "audio" THEN Head(fs).data ELSE <<>>) \o AudioOfStream(Tail(fs))

RECURSIVE AudioOfStreams(_)
AudioOfStreams(ss) ==
    IF ss = <<>> THEN <<>> ELSE AudioOfStream(Head(ss)) \o AudioOfStreams(Tail(ss))

IsPrefix(p, q) == Len(p) <= Len(q) /\ \A i \in 1..Len(p) : p[i] = q[i]

(***************************************************************************)
(* Properties of Spec.                                                     *)
(***************************************************************************)
\* C1: synth_all calls the collaborator once per segment of chunk_text(text),
\* in order, never with two calls in flight and the next call only after the
\* previous stream was exhausted; what it returns is the data of the audio
\* frames of the streams, in order, and nothing of the other frames.
C1_SequentialSynthesis ==
    /\ inflight \in {0, 1}
    /\ final_text # None =>
          /\ IsPrefix(calls, ChunksOf[final_text])
          /\ Len(streams) = Len(calls)
          /\ Len(calls) - Len(parts) \in {0, 1}
          /\ inflight = 1 => (pc = "stream" /\ Len(calls) = Len(parts) + 1)
          /\ pc = "loop" => (inflight = 0 /\ Len(parts) = Len(calls))
          /\ status = "success" =>
                /\ calls = ChunksOf[final_text]
                /\ ret = AudioOfStreams(streams)

C1_Witness ==
    /\ status = "success"
    /\ Len(calls) = 3
    /\ streams[1] = <<Boundary>>
    /\ streams[2] = <<>>
    /\ streams[3] = <<Audio(calls[3])>>
    /\ ret = Audio(calls[3]).data

C1_WitnessOrder ==
    /\ status = "success"
    /\ Len(calls) = 3
    /\ ret = Audio(calls[1]).data \o Audio(calls[2]).data

\* C2: a failing stream ends the run: the collaborator is not called again
\* (the failed call is the last one made, every earlier segment was called
\* once), nothing is returned, and the artifact is the one from before the
\* click; the artifact changes only to the encoded result of a run in which
\* every segment's stream was exhausted.
C2_FailedRun ==
    status = "error" =>
        /\ pc = "idle"
        /\ inflight = 0
        /\ ret = NoBytes
        /\ audio_b64 = artifactBefore
        /\ IsPrefix(calls, ChunksOf[final_text])
        /\ Len(calls) = Len(parts) + 1

C2_Replacement ==
    audio_b64' # audio_b64 =>
        /\ status' = "success"
        /\ calls' = ChunksOf[final_text']
        /\ Len(parts') = Len(calls')
        /\ audio_b64' = b64encode(AudioOfStreams(streams'))

C2_FailureKeepsArtifact == [](C2_FailedRun) /\ [][C2_Replacement]_vars

C2_Witness ==
    /\ status = "error"
    /\ artifactBefore # None
    /\ artifactBefore # <<>>
    /\ Len(segs) = 3
    /\ Len(calls) = 2
    /\ parts = <<Audio(calls[1]).data>>

(***************************************************************************)
(* Properties of SpecChunk.                                                *)
(***************************************************************************)
\* C3: a segment longer than max_chars is a single sentence, and a sentence
\* longer than max_chars is a segment of its own; "Hello. This is a test."
\* with max_chars = 10 gives "Hello." and "This is a test.".
C3_OversizeAlone ==
    c_pc = "done" =>
        /\ \A i \in 1..Len(c_out) :
              LET inside == SentencesOf(c_out[i])
              IN  /\ Len(c_out[i]) > c_max => Len(inside) = 1
                  /\ (\E j \in 1..Len(inside) : Len(inside[j]) > c_max) => Len(inside) = 1
        /\ \A j \in 1..Len(SentencesOf(strip(c_text))) :
              Len(SentencesOf(strip(c_text))[j]) > c_max =>
                 \E i \in 1..Len(c_out) : c_out[i] = SentencesOf(strip(c_text))[j]
        /\ (c_text = HelloText /\ c_max = 10) =>
              c_out = <<SubSeq(HelloText, 1, 6), SubSeq(HelloText, 8, 22)>>

C3_Witness ==
    /\ c_pc = "done"
    /\ c_text = HelloText
    /\ c_max = 10
    /\ Len(c_out) = 2
    /\ Len(c_out[1]) <= c_max
    /\ Len(c_out[2]) > c_max

\* C4: when the text is split (its trimmed length exceeds max_chars), the
\* segments joined by one space are the trimmed text with every whitespace
\* run after a terminator replaced by one space, and the sentences of the
\* segments, in order, are the sentences of the text.
C4_Reassembly ==
    (c_pc = "done" /\ Len(strip(c_text)) > c_max) =>
        /\ JoinSpace(c_out) = OneSpaceAfterTerminator(strip(c_text), 1)
        /\ SentencesOfAll(c_out) = SentencesOf(strip(c_text))

C4_Witness ==
    /\ c_pc = "done"
    /\ Len(strip(c_text)) > c_max
    /\ Len(c_out) = 2
    /\ Len(SentencesOf(strip(c_text))) = 3
    /\ JoinSpace(c_out) # strip(c_text)

(***************************************************************************)
(* Property of SpecTranslate.                                              *)
(***************************************************************************)
\* C5: a call returns a text and raises nothing; on blank input it returns
\* the empty text and the collaborator is not invoked; on other input it
\* returns its argument when there is no collaborator and when the
\* collaborator's call throws.
C5_TranslateFallback ==
    tr_text # None =>
        /\ ~tr_raised
        /\ tr_ret # None
        /\ strip(tr_text) = <<>> => (tr_ret = <<>> /\ ~tr_invoked)
        /\ (strip(tr_text) # <<>> /\ ~GoogleTranslator) => (tr_ret = tr_text /\ ~tr_invoked)
        /\ (strip(tr_text) # <<>> /\ tr_threw) => tr_ret = tr_text

C5_Witness ==
    /\ tr_text = KoShort
    /\ tr_threw
    /\ tr_ret = KoShort
    /\ Blank \in DOMAIN tr_cache
    /\ tr_cache[Blank] = <<>>

(***************************************************************************)
(* Properties of SpecLoop and SpecLoopRun. A click on the start button in  *)
(* state idle is the step that leaves lastEvent "alert" or "start"; a      *)
(* click in state looping the step that leaves it "stop".                  *)
(***************************************************************************)
IdleClick == ~looping /\ lastEvent' \in {"alert", "start"}

\* C6: start pressed in idle with B <= A raises the warning and changes
\* nothing of A, B, looping, the counter, the position and play/pause; with
\* A < B it moves to looping, at position A, playing.
C6_Start ==
    /\ (IdleClick /\ B <= A) =>
          /\ lastEvent' = "alert"
          /\ UNCHANGED <<A, B, looping, left, currentTime, playing>>
    /\ (IdleClick /\ A < B) =>
          /\ lastEvent' = "start"
          /\ looping'
          /\ currentTime' = A
          /\ playing'
          /\ UNCHANGED <<A, B>>

C6_StartGuard == [][C6_Start]_vars

C6_Witness ==
    /\ lastEvent = "alert"
    /\ B < A
    /\ ~looping
    /\ playing
    /\ left = Num(1)
    /\ repeatN = <<"2">>

\* C7: a loop started with a count N >= 1 and left alone counts down one per
\* arrival at B: while it loops the counter is N minus the arrivals so far
\* and at least 1, each arrival but the last seeks to A and plays on, the
\* N-th ends it idle and paused, and it does end.
C7_Counting ==
    (looping /\ ~startN.nan /\ startN.v >= 1) =>
        /\ ~left.nan
        /\ left.v = startN.v - hits
        /\ left.v >= 1
        /\ A < B

C7_Again ==
    (looping /\ ~startN.nan /\ startN.v >= 1 /\ lastEvent' = "again" /\ hits' # hits) =>
        /\ currentTime >= B
        /\ hits' < startN.v
        /\ left' = Num(left.v - 1)
        /\ looping'
        /\ currentTime' = A
        /\ playing'

C7_Done ==
    (lastEvent = "done" /\ ~startN.nan /\ startN.v >= 1) =>
        /\ hits = startN.v
        /\ left = Num(0)
        /\ ~looping
        /\ ~playing

C7_LoopRunsNTimes ==
    /\ [](C7_Counting /\ C7_Done)
    /\ [][C7_Again]_vars
    /\ (looping /\ ~startN.nan /\ startN.v >= 1) ~> (lastEvent = "done")

C7_Witness ==
    /\ lastEvent = "done"
    /\ startN = Num(2)
    /\ hits = 2
    /\ A = 1
    /\ B = 2
    /\ ~looping
    /\ ~playing

\* C8 as claimed: stop pressed while looping goes to idle, pauses playback
\* and keeps the position.
C8_StopPauses ==
    [][(looping /\ lastEvent' = "stop") =>
          (~looping' /\ ~playing' /\ currentTime' = currentTime)]_vars

\* C8 as amended: stop pressed while looping goes to idle and leaves the
\* position and the play/pause status as they were.
C8_StopKeepsPlayback ==
    [][(looping /\ lastEvent' = "stop") =>
          (~looping' /\ UNCHANGED <<currentTime, playing, A, B, left>>)]_vars

C8_Witness ==
    /\ lastEvent = "stop"
    /\ ~looping
    /\ playing
    /\ currentTime > 0

\* C9 as claimed: A <= B in every reachable state.
C9_EndpointsOrdered == A <= B

\* C9 as amended: a loop only starts with A < B, and starting it moves
\* neither endpoint.
C9_StartNeedsRange ==
    [][(~looping /\ looping') => (A < B /\ UNCHANGED <<A, B>>)]_vars

C9_Witness ==
    /\ lastEvent = "start"
    /\ looping
    /\ 0 < A
    /\ A < B

\* C10: while looping the counter is an integer of REPEAT_MIN..REPEAT_MAX.
C10_CounterInBounds ==
    looping => (~left.nan /\ REPEAT_MIN <= left.v /\ left.v <= REPEAT_MAX)

====
